---- MODULE Spec2Model ----
(***************************************************************************)
(* Model of apps/backend/main.py: a FastAPI application with a module-     *)
(* level PPStructureV3 engine `ocr`, a GET / handler `root` and a GET      *)
(* /test handler `test` that runs the engine on a fixed sample, saves two  *)
(* artifacts per page result under "output" and returns an envelope.       *)
(* FastAPI runs the synchronous handlers on a thread pool, so the handler  *)
(* of one request interleaves with the handler of another at every         *)
(* statement; each statement group of `test` is one action.                *)
(***************************************************************************)
EXTENDS Integers, Sequences, FiniteSets, TLC

\* ---- bounds of the model -------------------------------------------------
MaxPages == 2        \* longest page list the engine returns
MaxClock == 1        \* largest reading of the wall clock, in ticks
TicksPerSecond == 2  \* clock ticks that make up one second

\* The requests in flight; two are enough for every interleaving of a pair.
Requests == {1, 2}

\* Textual renderings the engine can put on a page, as token sequences.
Texts == {<<"a">>, <<"b">>}

\* A page result: res.markdown["markdown_texts"] and the annotated image.
PageResult(t) == [markdown |-> [markdown_texts |-> t], img |-> <<"img">> \o t]

PageResults == {PageResult(t) : t \in Texts}

\* Every list ocr.predict can return.
PageSeqs == UNION {[1..n -> PageResults] : n \in 0..MaxPages}

\* Every reading datetime.now() can give, in ticks: naive local wall-clock
\* time, which may stand still or step back between two readings.  A reading
\* does not depend on the one before it, so the clock is an input of the
\* steps that read it and no part of the state.
Readings == 0..MaxClock

\* Request body a client may attach; OCRRequest.file is base64 text.
Payloads == {"none", "valid_base64", "malformed"}

VARIABLES
  pc,          \* pc[r]: position of request r's handler
  payload,     \* payload[r]: body the client sent with the request
  ocr,         \* the module-level engine: instances created, predict calls
  time_start,  \* local of test
  result,      \* local of test: list returned by ocr.predict
  markdown,    \* local of test
  i,           \* position of the for loop's iterator in result
  time_end,    \* local of test: elapsed duration
  responses,   \* responses[r]: bodies returned to the caller of r
  error,       \* error[r]: exception that left the handler
  fs,          \* the files on disk: path -> content
  trace        \* trace[r]: the calls request r has made, in order

vars == <<pc, payload, ocr, time_start, result, markdown, i,
          time_end, responses, error, fs, trace>>

Event(e, page, ok) == [ev |-> e, page |-> page, ok |-> ok]

Log(r, e, page, ok) == [trace EXCEPT ![r] = Append(@, Event(e, page, ok))]

\* datetime.strftime("%Y-%m-%d %H:%M:%S"): whole seconds, sub-second part dropped.
strftime(t) == [seconds |-> t \div TicksPerSecond]

\* Path of the artifact res.save_to_*(save_path=dir) writes for page k.
ArtifactPath(dir, k, kind) == [dir |-> dir, page |-> k, kind |-> kind]

\* The save_path argument request r passes at lines 49-50.
SavePathPerRequest(r) == IF r = 1 THEN "output/1" ELSE "output/2"

SavePath(r) == "output"

\* An exception leaves the handler: the framework answers with an error,
\* the handler returns nothing.
Raise(r, kind) ==
  /\ pc' = [pc EXCEPT ![r] = "Failed"]
  /\ error' = [error EXCEPT ![r] = kind]

InitWith(S, bodies) ==
  /\ pc = [r \in Requests |-> IF r \in S THEN "Received" ELSE "NotSent"]
  /\ payload \in [Requests -> bodies]
  /\ \A r \in Requests \ S : payload[r] = "none"
  /\ ocr = [created |-> 1, calls |-> 0]
  /\ time_start = [r \in Requests |-> 0]
  /\ result = [r \in Requests |-> <<>>]
  /\ markdown = [r \in Requests |-> <<>>]
  /\ i = [r \in Requests |-> 0]
  /\ time_end = [r \in Requests |-> 0]
  /\ responses = [r \in Requests |-> <<>>]
  /\ error = [r \in Requests |-> "none"]
  /\ fs = <<>>
  /\ trace = [r \in Requests |-> <<>>]

\* One request at a time.
Init == InitWith({1}, Payloads)

\* Two requests in flight together, both plain GETs without a body.
InitConc == InitWith(Requests, {"none"})

\* GET / : prints and returns a constant string.
root(r) ==
  /\ pc[r] = "Received"
  /\ pc' = [pc EXCEPT ![r] = "RootDone"]
  /\ responses' = [responses EXCEPT ![r] = Append(@, [body |-> "main chicka"])]
  /\ trace' = Log(r, "print_hello_world", 0, TRUE)
  /\ UNCHANGED <<payload, ocr, time_start, result, markdown, i,
                 time_end, error, fs>>

\* GET /test, lines 42-44: print, time_start = datetime.now(), test_pdf.
\* t is what datetime.now() reads.
Begin(r, t) ==
  /\ pc[r] = "Received"
  /\ time_start' = [time_start EXCEPT ![r] = t]
  /\ pc' = [pc EXCEPT ![r] = "predict"]
  /\ trace' = Log(r, "now_start", 0, TRUE)
  /\ UNCHANGED <<payload, ocr, result, markdown, i, time_end, responses,
                 error, fs>>

\* A variant that answers with an empty envelope when the engine raises.
PredictSwallow(r) ==
  /\ pc[r] = "predict"
  /\ ocr' = [ocr EXCEPT !.calls = @ + 1]
  /\ \/ \E pages \in PageSeqs :
          /\ result' = [result EXCEPT ![r] = pages]
          /\ pc' = [pc EXCEPT ![r] = "index"]
          /\ trace' = Log(r, "predict", 0, TRUE)
     \/ /\ trace' = Log(r, "predict", 0, FALSE)
        /\ pc' = [pc EXCEPT ![r] = "return"]
        /\ UNCHANGED result
  /\ UNCHANGED <<payload, time_start, markdown, i, time_end,
                 responses, error, fs>>

\* Line 45: result = ocr.predict(test_pdf); the engine returns a list of
\* page results or raises.
Predict(r) ==
  /\ pc[r] = "predict"
  /\ ocr' = [ocr EXCEPT !.calls = @ + 1]
  /\ \/ \E pages \in PageSeqs :
          /\ result' = [result EXCEPT ![r] = pages]
          /\ pc' = [pc EXCEPT ![r] = "index"]
          /\ trace' = Log(r, "predict", 0, TRUE)
          /\ UNCHANGED error
     \/ /\ trace' = Log(r, "predict", 0, FALSE)
        /\ Raise(r, "EngineError")
        /\ UNCHANGED result
  /\ UNCHANGED <<payload, time_start, markdown, i, time_end,
                 responses, fs>>

\* Line 47: markdown = result[0].markdown["markdown_texts"]; an empty list
\* raises IndexError.
Index(r) ==
  /\ pc[r] = "index"
  /\ IF Len(result[r]) = 0
       THEN /\ trace' = Log(r, "index0", 1, FALSE)
            /\ Raise(r, "IndexError")
            /\ UNCHANGED markdown
       ELSE /\ markdown' = [markdown EXCEPT
                              ![r] = result[r][1].markdown.markdown_texts]
            /\ trace' = Log(r, "index0", 1, TRUE)
            /\ pc' = [pc EXCEPT ![r] = "for"]
            /\ UNCHANGED error
  /\ UNCHANGED <<payload, ocr, time_start, result, i, time_end,
                 responses, fs>>

\* A variant whose loop stops one page short.
ForNextShort(r) ==
  /\ pc[r] = "for"
  /\ IF i[r] < Len(result[r]) - 1
       THEN /\ i' = [i EXCEPT ![r] = @ + 1]
            /\ trace' = Log(r, "next", i[r] + 1, TRUE)
            /\ pc' = [pc EXCEPT ![r] = "save_md"]
       ELSE /\ pc' = [pc EXCEPT ![r] = "finish"]
            /\ UNCHANGED <<i, trace>>
  /\ UNCHANGED <<payload, ocr, time_start, result, markdown,
                 time_end, responses, error, fs>>

\* Line 48: for res in result -- fetch the next page or leave the loop.
ForNext(r) ==
  /\ pc[r] = "for"
  /\ IF i[r] < Len(result[r])
       THEN /\ i' = [i EXCEPT ![r] = @ + 1]
            /\ trace' = Log(r, "next", i[r] + 1, TRUE)
            /\ pc' = [pc EXCEPT ![r] = "save_md"]
       ELSE /\ pc' = [pc EXCEPT ![r] = "finish"]
            /\ UNCHANGED <<i, trace>>
  /\ UNCHANGED <<payload, ocr, time_start, result, markdown,
                 time_end, responses, error, fs>>

\* One artifact write: the file is (over)written, or the write raises.
Save(r, kind, content, next) ==
  \/ /\ fs' = (ArtifactPath(SavePath(r), i[r], kind)
                 :> [content |-> content]) @@ fs
     /\ trace' = Log(r, kind, i[r], TRUE)
     /\ pc' = [pc EXCEPT ![r] = next]
     /\ UNCHANGED error
  \/ /\ trace' = Log(r, kind, i[r], FALSE)
     /\ Raise(r, "WriteError")
     /\ UNCHANGED fs

\* Line 49: res.save_to_markdown(save_path="output").
SaveToMarkdown(r) ==
  /\ pc[r] = "save_md"
  /\ Save(r, "save_to_markdown", result[r][i[r]].markdown.markdown_texts,
          "save_img")
  /\ UNCHANGED <<payload, ocr, time_start, result, markdown, i,
                 time_end, responses>>

\* Line 50: res.save_to_img(save_path="output").
SaveToImg(r) ==
  /\ pc[r] = "save_img"
  /\ Save(r, "save_to_img", result[r][i[r]].img, "for")
  /\ UNCHANGED <<payload, ocr, time_start, result, markdown, i,
                 time_end, responses>>

\* Lines 53-55: print, time_end = datetime.now() - time_start, print.
\* t is what datetime.now() reads; the difference is negative when the wall
\* clock stepped back since line 43.
Finish(r, t) ==
  /\ pc[r] = "finish"
  /\ time_end' = [time_end EXCEPT ![r] = t - time_start[r]]
  /\ trace' = Log(r, "now_elapsed", 0, TRUE)
  /\ pc' = [pc EXCEPT ![r] = "return"]
  /\ UNCHANGED <<payload, ocr, time_start, result, markdown, i, responses,
                 error, fs>>

\* A variant that also reports the elapsed duration in the envelope.
ReturnWithElapsed(r, t) ==
  /\ pc[r] = "return"
  /\ responses' = [responses EXCEPT ![r] =
       Append(@, [result |-> markdown[r], timestamp |-> strftime(t),
                  time_taken |-> time_end[r]])]
  /\ trace' = Log(r, "now_timestamp", 0, TRUE)
  /\ pc' = [pc EXCEPT ![r] = "Completed"]
  /\ UNCHANGED <<payload, ocr, time_start, result, markdown, i, time_end,
                 error, fs>>

\* Lines 56-59: return {"result": markdown, "timestamp": now().strftime(..)}.
\* t is what datetime.now() reads.
Return(r, t) ==
  /\ pc[r] = "return"
  /\ responses' = [responses EXCEPT ![r] =
       Append(@, [result |-> markdown[r], timestamp |-> strftime(t)])]
  /\ trace' = Log(r, "now_timestamp", 0, TRUE)
  /\ pc' = [pc EXCEPT ![r] = "Completed"]
  /\ UNCHANGED <<payload, ocr, time_start, result, markdown, i, time_end,
                 error, fs>>

Next ==
  \E r \in Requests :
    \/ root(r)
    \/ \E t \in Readings : Begin(r, t)
    \/ Predict(r)
    \/ Index(r)
    \/ ForNext(r)
    \/ SaveToMarkdown(r)
    \/ SaveToImg(r)
    \/ \E t \in Readings : Finish(r, t)
    \/ \E t \in Readings : Return(r, t)

Spec == Init /\ [][Next]_vars

SpecConc == InitConc /\ [][Next]_vars

TypeOK ==
  /\ pc \in [Requests -> {"NotSent", "Received", "RootDone", "predict",
                          "index", "for", "save_md", "save_img", "finish",
                          "return", "Completed", "Failed"}]
  /\ payload \in [Requests -> Payloads]
  /\ \A r \in Requests : time_start[r] \in Readings
  /\ \A r \in Requests : time_end[r] \in -MaxClock..MaxClock
  /\ \A r \in Requests : result[r] \in PageSeqs /\ i[r] \in 0..MaxPages

\* ---- observations on a request's trace ----------------------------------
Terminal(r) == pc[r] \in {"Completed", "Failed"}

Happened(r, e, ok) ==
  \E k \in 1..Len(trace[r]) : trace[r][k].ev = e /\ trace[r][k].ok = ok

EngineReturned(r) == Happened(r, "predict", TRUE)

EngineRaised(r) == Happened(r, "predict", FALSE)

IsWrite(e) == e.ev \in {"save_to_markdown", "save_to_img"}

IsRead(e) == e.ev \in {"index0", "next"} /\ e.ok

\* The artifact writes request r has attempted, in order.
Writes(r) == SelectSeq(trace[r], IsWrite)

\* The accesses request r has made to elements of the page list, in order.
Reads(r) == SelectSeq(trace[r], IsRead)

WriteFailed(r) == \E k \in 1..Len(Writes(r)) : ~Writes(r)[k].ok

Attempted(r, kind, page) ==
  \E k \in 1..Len(Writes(r)) : Writes(r)[k].ev = kind /\ Writes(r)[k].page = page

\* Position of the first event e in r's trace, 0 when it has not happened.
Pos(r, e) ==
  IF \E k \in 1..Len(trace[r]) : trace[r][k].ev = e
    THEN CHOOSE k \in 1..Len(trace[r]) :
           /\ trace[r][k].ev = e
           /\ \A j \in 1..(k - 1) : trace[r][j].ev # e
    ELSE 0

Count(r, e) == Cardinality({k \in 1..Len(trace[r]) : trace[r][k].ev = e})

Distinct(pages) ==
  \A a, b \in 1..Len(pages) :
    a # b => pages[a].markdown.markdown_texts # pages[b].markdown.markdown_texts

\* The renderings of all pages, one after the other.
RECURSIVE Concatenation(_)
Concatenation(pages) ==
  IF pages = <<>> THEN <<>>
  ELSE Head(pages).markdown.markdown_texts \o Concatenation(Tail(pages))

\* Text t occurs in text s as one contiguous block.
Occurs(t, s) ==
  \E a \in 1..(Len(s) - Len(t) + 1) : SubSeq(s, a, a + Len(t) - 1) = t

\* The writes a request with n pages makes when none fails.
ExpectedWrite(k) ==
  [ev |-> IF k % 2 = 1 THEN "save_to_markdown" ELSE "save_to_img",
   page |-> (k + 1) \div 2]

\* ---- C1 ------------------------------------------------------------------
\* C1: when the engine returns N pages with pairwise distinct renderings,
\* the result of the returned envelope is the renderings of all N pages,
\* each once, verbatim and in the engine's order.
C1_ResultHoldsAllPagesInOrder ==
  \A r \in Requests :
    (pc[r] = "Completed" /\ Distinct(result[r]))
      => responses[r][1].result = Concatenation(result[r])

\* ---- C2 ------------------------------------------------------------------
\* C2: when the engine returns zero pages the request does not fail; it
\* completes with an envelope whose result is empty and writes no artifact.
C2_EmptySequenceCompletes ==
  \A r \in Requests :
    (EngineReturned(r) /\ Len(result[r]) = 0 /\ Terminal(r))
      => /\ pc[r] = "Completed"
         /\ Len(responses[r]) = 1
         /\ responses[r][1].result = <<>>
         /\ Writes(r) = <<>>

\* ---- C3 ------------------------------------------------------------------
\* C3: if a write of page k's artifact fails, both artifacts of every page
\* k+1..N are still attempted and those pages still contribute to the
\* aggregated result.
C3_LaterPagesSurviveWriteFailure ==
  \A r \in Requests :
    Terminal(r) =>
      \A k \in 1..Len(result[r]) :
        (\E w \in 1..Len(Writes(r)) :
            Writes(r)[w].page = k /\ ~Writes(r)[w].ok)
          => \A j \in (k + 1)..Len(result[r]) :
               /\ Attempted(r, "save_to_markdown", j)
               /\ Attempted(r, "save_to_img", j)
               /\ Len(responses[r]) = 1
               /\ Occurs(result[r][j].markdown.markdown_texts,
                         responses[r][1].result)

\* ---- C4 ------------------------------------------------------------------
\* C4: an artifact write failure is never surfaced: once the engine call has
\* returned, a request never ends in Failed on account of a failed write.
C4_WriteFailureNeverSurfaced ==
  \A r \in Requests :
    (EngineReturned(r) /\ WriteFailed(r)) => pc[r] # "Failed"

\* ---- C5 ------------------------------------------------------------------
\* C5: a request carrying a malformed encoded payload never reaches the
\* engine and ends in Failed with error kind MalformedPayload.
C5_MalformedPayloadRejected ==
  \A r \in Requests :
    payload[r] = "malformed"
      => /\ Count(r, "predict") = 0
         /\ Terminal(r) => (pc[r] = "Failed" /\ error[r] = "MalformedPayload")

\* ---- C6 ------------------------------------------------------------------
\* C6: if the engine call raises, the request ends in Failed at once, the
\* error reaches the caller and no envelope is returned; an envelope with a
\* result is returned only by a request whose engine call returned.
C6_AllOrNothing ==
  \A r \in Requests :
    /\ EngineRaised(r)
         => /\ pc[r] = "Failed"
            /\ error[r] = "EngineError"
            /\ responses[r] = <<>>
            /\ trace[r][Len(trace[r])].ev = "predict"
    /\ (\E k \in 1..Len(responses[r]) : "result" \in DOMAIN responses[r][k])
         => EngineReturned(r) /\ ~EngineRaised(r)

\* C6 witness: a request whose engine call raised has ended in Failed.
C6_Witness ==
  \E r \in Requests : EngineRaised(r) /\ pc[r] = "Failed"

\* ---- C7 ------------------------------------------------------------------
\* C7: the engine is invoked at most once per request and the page sequence
\* is consumed in one forward traversal: no position is read twice.
C7_SingleForwardTraversal ==
  \A r \in Requests :
    /\ Count(r, "predict") <= 1
    /\ \A a, b \in 1..Len(Reads(r)) :
         a < b => Reads(r)[a].page < Reads(r)[b].page

\* ---- C8 ------------------------------------------------------------------
\* C8: the writes of a request are, in order, the markdown write and then
\* the image write of page 1, then those of page 2, ...; a request that has
\* ended with no failed write has made exactly 2N of them, and a completed
\* request has left both files of each page on disk.
C8_TwoWritesPerPageInPageOrder ==
  \A r \in Requests :
    LET w == Writes(r)
        n == Len(result[r])
    IN /\ Len(w) <= 2 * n
       /\ \A k \in 1..Len(w) :
            w[k].ev = ExpectedWrite(k).ev /\ w[k].page = ExpectedWrite(k).page
       /\ (Terminal(r) /\ ~WriteFailed(r)) => Len(w) = 2 * n
       /\ pc[r] = "Completed" =>
            \A k \in 1..n : \A kind \in {"save_to_markdown", "save_to_img"} :
              ArtifactPath("output", k, kind) \in DOMAIN fs

\* C8 witness: a request over two or more pages has completed.
C8_Witness ==
  \E r \in Requests :
    /\ pc[r] = "Completed"
    /\ Len(result[r]) >= 2
    /\ Len(Writes(r)) = 2 * Len(result[r])

\* ---- C9 ------------------------------------------------------------------
\* C9: the start time is read before the engine is invoked, the elapsed
\* duration is computed after the last artifact write, the envelope's
\* timestamp is read after that, the envelope is created once and its fields
\* are exactly result and timestamp.
C9_TimingOrderAndEnvelopeShape ==
  \A r \in Requests :
    /\ Count(r, "now_start") <= 1 /\ Count(r, "predict") <= 1
    /\ Count(r, "now_elapsed") <= 1 /\ Count(r, "now_timestamp") <= 1
    /\ Pos(r, "predict") > 0
         => (Pos(r, "now_start") > 0 /\ Pos(r, "now_start") < Pos(r, "predict"))
    /\ Pos(r, "now_elapsed") > 0
         => /\ Pos(r, "predict") > 0 /\ Pos(r, "predict") < Pos(r, "now_elapsed")
            /\ Len(Writes(r)) = 2 * Len(result[r])
            /\ \A k \in 1..Len(trace[r]) :
                 IsWrite(trace[r][k]) => k < Pos(r, "now_elapsed")
    /\ Pos(r, "now_timestamp") > 0
         => (Pos(r, "now_elapsed") > 0
             /\ Pos(r, "now_elapsed") < Pos(r, "now_timestamp"))
    /\ Len(responses[r]) <= 1
    /\ pc[r] = "Completed"
         <=> (Pos(r, "now_timestamp") > 0 /\ Len(responses[r]) = 1)
    /\ pc[r] = "Completed"
         => /\ DOMAIN responses[r][1] = {"result", "timestamp"}
            /\ Pos(r, "now_timestamp") = Len(trace[r])

\* C9 witness: a request with pages has completed although the wall clock
\* stepped back during the pipeline and again before the envelope was built.
C9_Witness ==
  \E r \in Requests :
    /\ pc[r] = "Completed"
    /\ Len(result[r]) >= 1
    /\ time_end[r] < 0
    /\ responses[r][1].timestamp = strftime(0)
    /\ time_start[r] = MaxClock

\* ---- C10 -----------------------------------------------------------------
\* C10: one engine instance serves every request, every artifact lies
\* directly under the one output directory whatever request wrote it, and
\* each request's own writes follow its page order.
C10_SharedEngineAndOutputDir ==
  /\ ocr.created = 1
  /\ ocr.calls = Cardinality({r \in Requests : Count(r, "predict") > 0})
  /\ \A p \in DOMAIN fs : p.dir = "output"
  /\ \A r \in Requests :
       LET w == Writes(r)
       IN \A a \in 1..(Len(w) - 1) :
            \/ w[a].page < w[a + 1].page
            \/ /\ w[a].page = w[a + 1].page
               /\ w[a].ev = "save_to_markdown"
               /\ w[a + 1].ev = "save_to_img"

\* C10 witness: both requests wrote the same path with different contents
\* and the file now holds request 2's content, request 1's being overwritten.
C10_Witness ==
  \E p \in DOMAIN fs :
    /\ \E k \in 1..Len(trace[1]) :
         /\ trace[1][k].ev = p.kind /\ trace[1][k].page = p.page
         /\ trace[1][k].ok
    /\ \E k \in 1..Len(trace[2]) :
         /\ trace[2][k].ev = p.kind /\ trace[2][k].page = p.page
         /\ trace[2][k].ok
    /\ result[1][p.page] # result[2][p.page]
    /\ ocr.calls = 2
    /\ fs[p].content = IF p.kind = "save_to_markdown"
                         THEN result[2][p.page].markdown.markdown_texts
                         ELSE result[2][p.page].img
====
